---- MODULE Spec2Model ----
(***************************************************************************)
(* vdf-serde: a Serde encoder (src/src/ser.rs) and decoder (src/src/de.rs) *)
(* for the Valve Data Format.                                              *)
(*                                                                         *)
(* Text is a sequence of one-character strings.  A run is one call of      *)
(* to_string or of from_str; a to_string that succeeds is followed, as in  *)
(* the crate's doc test (lib.rs:131), by from_str of the text it returned. *)
(* The recursion of the Serde framework through the encoder and decoder is *)
(* kept on explicit stacks: every action is the piece of one handler that  *)
(* runs between two calls back into the framework.                         *)
(***************************************************************************)
EXTENDS Integers, Sequences, FiniteSets, TLC

QUOTE == "\""
BSLASH == "\\"
TAB == "\t"
NL == "\n"
SPACE == " "
LBRACE == "{"
RBRACE == "}"

(***************************************************************************)
(* Bounds of the model.                                                    *)
(***************************************************************************)
\* longest string given to serialize_str on its own
MaxStrLen == 4
\* most tokens in a hand-made document given to from_str
MaxDocTokens == 4

(***************************************************************************)
(* Text helpers (std::string::String, str).                                *)
(***************************************************************************)
RECURSIVE Concat(_)
Concat(ss) == IF ss = <<>> THEN <<>> ELSE Head(ss) \o Concat(Tail(ss))

\* "\t".repeat(n)
RECURSIVE Repeat(_, _)
Repeat(c, n) == IF n <= 0 THEN <<>> ELSE <<c>> \o Repeat(c, n - 1)

\* str::replace(from, to) for a one-character pattern
RECURSIVE Replace(_, _, _)
Replace(s, from, to) ==
    IF s = <<>> THEN <<>>
    ELSE (IF Head(s) = from THEN to ELSE <<Head(s)>>) \o Replace(Tail(s), from, to)

\* char::is_whitespace, on the characters of the model's alphabet
IsWhitespace(c) == c \in {SPACE, TAB, NL, "\r"}

\* str::trim_end
RECURSIVE TrimEnd(_)
TrimEnd(s) ==
    IF s = <<>> THEN <<>>
    ELSE IF IsWhitespace(s[Len(s)]) THEN TrimEnd(SubSeq(s, 1, Len(s) - 1))
    ELSE s

\* String::ends_with(c)
EndsWith(s, c) == s # <<>> /\ s[Len(s)] = c

\* String::pop
Pop(s) == SubSeq(s, 1, Len(s) - 1)

(***************************************************************************)
(* Integers: i64::to_string / u64::to_string and <T as FromStr>::from_str. *)
(***************************************************************************)
Digits == <<"0", "1", "2", "3", "4", "5", "6", "7", "8", "9">>

RECURSIVE NatToString(_)
NatToString(n) ==
    IF n < 10 THEN <<Digits[n + 1]>>
    ELSE NatToString(n \div 10) \o <<Digits[(n % 10) + 1]>>

IntToString(n) == IF n < 0 THEN <<"-">> \o NatToString(0 - n) ELSE NatToString(n)

IsDigit(c) == \E i \in 1..10 : Digits[i] = c
DigitValue(c) == (CHOOSE i \in 1..10 : Digits[i] = c) - 1

RECURSIVE DigitsValue(_, _)
DigitsValue(s, acc) ==
    IF s = <<>> THEN acc ELSE DigitsValue(Tail(s), acc * 10 + DigitValue(Head(s)))

Signed(w) == w \in {"i8", "i16", "i32", "i64"}

\* The widths' ranges.  Texts of the model have at most MaxDigits digits, so a
\* 32- or 64-bit target is only ever out of range by its sign.
MaxDigits == 5
InRange(w, n) ==
    CASE w = "i8" -> n >= -128 /\ n <= 127
      [] w = "u8" -> n >= 0 /\ n <= 255
      [] w = "i16" -> n >= -32768 /\ n <= 32767
      [] w = "u16" -> n >= 0 /\ n <= 65535
      [] w \in {"i32", "i64"} -> TRUE
      [] w \in {"u32", "u64"} -> n >= 0

\* core::num::from_str_radix(s, 10): an optional sign ('-' only for a signed
\* type), then at least one digit and digits only, and the value in range.
ParseInt(w, s) ==
    LET neg == s # <<>> /\ Head(s) = "-" /\ Signed(w)
        body == IF s # <<>> /\ (Head(s) = "+" \/ neg) THEN Tail(s) ELSE s
        good == body # <<>> /\ Len(body) <= MaxDigits
                /\ \A i \in 1..Len(body) : IsDigit(body[i])
        n == IF neg THEN 0 - DigitsValue(body, 0) ELSE DigitsValue(body, 0)
    IN  IF good /\ InRange(w, n) THEN [ok |-> TRUE, n |-> n] ELSE [ok |-> FALSE, n |-> 0]

(***************************************************************************)
(* Token Source: steamy_vdf::parser::next, called at de.rs:52.  It skips    *)
(* whitespace and returns one token and the rest of the text: '{', '}', a  *)
(* double-quoted item with its escapes undone, or a bare word.  A text     *)
(* that ends before the token does is Incomplete.                          *)
(***************************************************************************)
GroupStart == [t |-> "GroupStart"]
GroupEnd == [t |-> "GroupEnd"]
Item(data) == [t |-> "Item", data |-> data]

RECURSIVE SkipWhitespace(_)
SkipWhitespace(s) ==
    IF s # <<>> /\ IsWhitespace(Head(s)) THEN SkipWhitespace(Tail(s)) ELSE s

\* the character an escape pair stands for
UnescapeChar(c) ==
    CASE c = "n" -> <<NL>>
      [] c = "t" -> <<TAB>>
      [] c = BSLASH -> <<BSLASH>>
      [] c = QUOTE -> <<QUOTE>>
      [] OTHER -> <<BSLASH, c>>

\* the text of a quoted item, from after its opening quote
RECURSIVE ScanQuoted(_, _)
ScanQuoted(s, acc) ==
    IF s = <<>> THEN [kind |-> "Incomplete"]
    ELSE IF Head(s) = QUOTE THEN [kind |-> "Done", rest |-> Tail(s), token |-> Item(acc)]
    ELSE IF Head(s) = BSLASH
         THEN IF Len(s) < 2 THEN [kind |-> "Incomplete"]
              ELSE ScanQuoted(SubSeq(s, 3, Len(s)), acc \o UnescapeChar(s[2]))
    ELSE ScanQuoted(Tail(s), acc \o <<Head(s)>>)

RECURSIVE ScanBare(_, _)
ScanBare(s, acc) ==
    IF s = <<>> \/ IsWhitespace(Head(s)) \/ Head(s) \in {LBRACE, RBRACE, QUOTE}
    THEN [kind |-> "Done", rest |-> s, token |-> Item(acc)]
    ELSE ScanBare(Tail(s), acc \o <<Head(s)>>)

\* one token from a text that starts with no whitespace
ScanToken(s) ==
    IF s = <<>> THEN [kind |-> "Incomplete"]
    ELSE IF Head(s) = LBRACE THEN [kind |-> "Done", rest |-> Tail(s), token |-> GroupStart]
    ELSE IF Head(s) = RBRACE THEN [kind |-> "Done", rest |-> Tail(s), token |-> GroupEnd]
    ELSE IF Head(s) = QUOTE THEN ScanQuoted(Tail(s), <<>>)
    ELSE ScanBare(s, <<>>)

ParserNext(text) == ScanToken(SkipWhitespace(text))

(***************************************************************************)
(* The Serde data model: the shapes a type can have, and values that carry *)
(* what their shape needs.  Names, keys and tags are texts.                *)
(***************************************************************************)
TBool == [k |-> "bool"]
TInt(w) == [k |-> "int", w |-> w]
TStr == [k |-> "str"]
TChar == [k |-> "char"]
\* variants: a sequence of [tag, shape], shape in unit, newtype, tuple, struct
TEnum(name, variants) == [k |-> "enum", name |-> name, variants |-> variants]
TOption(t) == [k |-> "option", t |-> t]
TNewtype(name, t) == [k |-> "newtype", name |-> name, t |-> t]
\* fields: a sequence of <<key, type>>
TStruct(name, fields) == [k |-> "struct", name |-> name, fields |-> fields]
\* a map with String keys
TMap(vt) == [k |-> "map", vt |-> vt]
\* a shape the format does not have: bytes, unit, unit_struct, seq, tuple,
\* tuple_struct, any
TUnsupported(kind) == [k |-> kind]

UnsupportedKinds == {"bytes", "unit", "unit_struct", "seq", "tuple", "tuple_struct"}

VBool(b) == [k |-> "bool", b |-> b]
VInt(w, n) == [k |-> "int", w |-> w, n |-> n]
VStr(s) == [k |-> "str", s |-> s]
VChar(c) == [k |-> "char", c |-> c]
VVariant(ety, tag) == [k |-> "variant", ety |-> ety, tag |-> tag]
VSome(v) == [k |-> "some", v |-> v]
VNone(t) == [k |-> "none", t |-> t]
VNewtype(name, v) == [k |-> "newtype", name |-> name, v |-> v]
\* fields: a sequence of <<key, value>>
VStruct(name, fields) == [k |-> "struct", name |-> name, fields |-> fields]
\* m: a function from keys to values
VMap(vt, m) == [k |-> "map", vt |-> vt, m |-> m]
VUnsupported(kind) == [k |-> kind]

VariantShape(ety, tag) ==
    LET i == CHOOSE i \in 1..Len(ety.variants) : ety.variants[i].tag = tag
    IN  ety.variants[i].shape

HasVariant(ety, tag) == \E i \in 1..Len(ety.variants) : ety.variants[i].tag = tag

RECURSIVE TypeOf(_)
TypeOf(v) ==
    CASE v.k = "bool" -> TBool
      [] v.k = "int" -> TInt(v.w)
      [] v.k = "str" -> TStr
      [] v.k = "char" -> TChar
      [] v.k = "variant" -> v.ety
      [] v.k = "some" -> TOption(TypeOf(v.v))
      [] v.k = "none" -> TOption(v.t)
      [] v.k = "newtype" -> TNewtype(v.name, TypeOf(v.v))
      [] v.k = "struct" ->
           TStruct(v.name, [i \in 1..Len(v.fields) |-> <<v.fields[i][1], TypeOf(v.fields[i][2])>>])
      [] v.k = "map" -> TMap(v.vt)
      [] OTHER -> TUnsupported(v.k)

(***************************************************************************)
(* State.                                                                  *)
(***************************************************************************)
VARIABLES
    pc,            \* "ser": to_string runs; "ser_done": it returned;
                   \* "de": from_str runs; "de_done": it returned
    arg_value,     \* the value given to to_string ([k |-> "absent"] if none)
    arg_type,      \* the type T of from_str::<T>
    arg_text,      \* the text given to from_str
    output,        \* Serializer.output
    indent_level,  \* Serializer.indent_level
    ser_stack,     \* the encoder's pending work, innermost first
    ser_result,    \* what to_string returned
    input,         \* Deserializer.input
    parsed_input,  \* Deserializer.parsed_input
    top_level,     \* Deserializer.top_level
    de_stack,      \* the decoder's pending work, innermost first
    de_result,     \* what from_str returned
    consumed,      \* observation: the tokens next_token has returned, in order
    pulls,         \* observation: how often the Token Source returned a token
    name_tokens,   \* observation: how many tokens were consumed as a top-level name
    named_seen     \* observation: how many decodes of a record or a single-field
                   \* wrapper were asked for

serVars == <<output, indent_level, ser_stack, ser_result>>
deVars == <<input, parsed_input, top_level, de_stack, de_result, consumed, pulls, name_tokens,
           named_seen>>
argVars == <<arg_value, arg_type, arg_text>>
vars == <<pc, arg_value, arg_type, arg_text, output, indent_level, ser_stack, ser_result,
          input, parsed_input, top_level, de_stack, de_result, consumed, pulls, name_tokens,
          named_seen>>

NoResult == [ok |-> FALSE, err |-> "none"]

(***************************************************************************)
(* Encoder (ser.rs).                                                       *)
(*                                                                         *)
(* ser_stack holds [f |-> "value", v] for a value whose Serialize impl is  *)
(* about to call the encoder, and [f |-> "entries", rest, st] for a group  *)
(* that is open: rest are the entries still to write, st is where the      *)
(* first of them stands (key, value, newline).                             *)
(***************************************************************************)
SerTop == Head(ser_stack)
SerValue(kind) == pc = "ser" /\ ser_stack # <<>> /\ SerTop.f = "value" /\ SerTop.v.k = kind
SerEntries(st) == pc = "ser" /\ ser_stack # <<>> /\ SerTop.f = "entries" /\ SerTop.st = st
SerPop == ser_stack' = Tail(ser_stack)

\* Escape with the backslash replaced last instead of first: the backslashes
\* the other three replacements introduce are escaped again
EscapeBackslashLast(v) ==
    Replace(Replace(Replace(Replace(v, NL, <<BSLASH, "n">>),
                            TAB, <<BSLASH, "t">>),
                    QUOTE, <<BSLASH, QUOTE>>),
            BSLASH, <<BSLASH, BSLASH>>)

\* ser.rs:107-111
Escape(v) ==
    Replace(Replace(Replace(Replace(v, BSLASH, <<BSLASH, BSLASH>>),
                            NL, <<BSLASH, "n">>),
                    TAB, <<BSLASH, "t">>),
            QUOTE, <<BSLASH, QUOTE>>)

\* what serialize_str appends
StrText(v) == <<QUOTE>> \o Escape(v) \o <<QUOTE>>

\* what serialize_i64 and serialize_u64 append
IntText(n) == <<QUOTE>> \o IntToString(n) \o <<QUOTE>>

\* what serialize_bool appends
BoolText(b) == IF b THEN <<QUOTE, "1", QUOTE>> ELSE <<QUOTE, "0", QUOTE>>

SerializeBool ==
    /\ SerValue("bool")
    /\ output' = output \o BoolText(SerTop.v.b)
    /\ SerPop
    /\ UNCHANGED <<pc, indent_level, ser_result>>
    /\ UNCHANGED deVars /\ UNCHANGED argVars

\* serialize_i8 .. serialize_u64: widened to i64 or u64, then formatted
SerializeInt ==
    /\ SerValue("int")
    /\ output' = output \o IntText(SerTop.v.n)
    /\ SerPop
    /\ UNCHANGED <<pc, indent_level, ser_result>>
    /\ UNCHANGED deVars /\ UNCHANGED argVars

SerializeChar ==
    /\ SerValue("char")
    /\ output' = output \o StrText(<<SerTop.v.c>>)
    /\ SerPop
    /\ UNCHANGED <<pc, indent_level, ser_result>>
    /\ UNCHANGED deVars /\ UNCHANGED argVars

SerializeStr ==
    /\ SerValue("str")
    /\ output' = output \o StrText(SerTop.v.s)
    /\ SerPop
    /\ UNCHANGED <<pc, indent_level, ser_result>>
    /\ UNCHANGED deVars /\ UNCHANGED argVars

\* the shapes whose encoder method only returns Err(Error::Message(..))
SerRejected(v) ==
    \/ v.k \in UnsupportedKinds
    \/ v.k = "none"
    \/ v.k = "variant" /\ VariantShape(v.ety, v.tag) # "unit"

SerializeUnitVariant ==
    /\ SerValue("variant")
    /\ ~SerRejected(SerTop.v)
    /\ output' = output \o StrText(SerTop.v.tag)
    /\ SerPop
    /\ UNCHANGED <<pc, indent_level, ser_result>>
    /\ UNCHANGED deVars /\ UNCHANGED argVars

\* SerializeUnsupported with an empty quoted text written before the error
SerializeUnsupportedWrites ==
    /\ pc = "ser" /\ ser_stack # <<>> /\ SerTop.f = "value"
    /\ SerRejected(SerTop.v)
    /\ ser_result' = [ok |-> FALSE, err |-> "Message"]
    /\ ser_stack' = <<>>
    /\ pc' = "ser_done"
    /\ output' = output \o <<QUOTE, QUOTE>>
    /\ UNCHANGED indent_level
    /\ UNCHANGED deVars /\ UNCHANGED argVars

\* serialize_bytes, serialize_none, serialize_unit, serialize_unit_struct,
\* serialize_newtype_variant, serialize_seq, serialize_tuple,
\* serialize_tuple_struct, serialize_tuple_variant, serialize_struct_variant:
\* the error goes up through every `?` and to_string returns it.
SerializeUnsupported ==
    /\ pc = "ser" /\ ser_stack # <<>> /\ SerTop.f = "value"
    /\ SerRejected(SerTop.v)
    /\ ser_result' = [ok |-> FALSE, err |-> "Message"]
    /\ ser_stack' = <<>>
    /\ pc' = "ser_done"
    /\ UNCHANGED <<output, indent_level>>
    /\ UNCHANGED deVars /\ UNCHANGED argVars

\* serialize_some and serialize_newtype_struct: value.serialize(self)
SerializeSome ==
    /\ SerValue("some")
    /\ ser_stack' = <<[f |-> "value", v |-> SerTop.v.v]>> \o Tail(ser_stack)
    /\ UNCHANGED <<pc, output, indent_level, ser_result>>
    /\ UNCHANGED deVars /\ UNCHANGED argVars

SerializeNewtypeStruct ==
    /\ SerValue("newtype")
    /\ ser_stack' = <<[f |-> "value", v |-> SerTop.v.v]>> \o Tail(ser_stack)
    /\ UNCHANGED <<pc, output, indent_level, ser_result>>
    /\ UNCHANGED deVars /\ UNCHANGED argVars

\* MapOpen without the removal of the key's separator tab
MapOpenKeepTab(out, level) ==
    out \o <<NL>> \o Repeat(TAB, level) \o <<LBRACE, NL>>

\* the text after serialize_map's lines 201-206
MapOpen(out, level) ==
    (IF EndsWith(out, TAB) THEN Pop(out) ELSE out)
        \o <<NL>> \o Repeat(TAB, level) \o <<LBRACE, NL>>

\* StructName without the test of the indent level: every record is named
StructNameEveryLevel(out, level, name) ==
    out \o <<QUOTE>> \o name \o <<QUOTE>>

\* the text after serialize_struct's lines 216-218
StructName(out, level, name) ==
    IF level = 0 THEN out \o <<QUOTE>> \o name \o <<QUOTE>> ELSE out

\* the orders in which a HashMap may hand out its keys
Orders(keys) ==
    {o \in [1..Cardinality(keys) -> keys] : \A i, j \in DOMAIN o : i # j => o[i] # o[j]}

SerializeMap ==
    /\ SerValue("map")
    /\ \E o \in Orders(DOMAIN SerTop.v.m) :
          ser_stack' = <<[f |-> "entries",
                          rest |-> [i \in DOMAIN o |-> <<o[i], SerTop.v.m[o[i]]>>],
                          st |-> "key"]>> \o Tail(ser_stack)
    /\ output' = MapOpen(output, indent_level)
    /\ indent_level' = indent_level + 1
    /\ UNCHANGED <<pc, ser_result>>
    /\ UNCHANGED deVars /\ UNCHANGED argVars

SerializeStruct ==
    /\ SerValue("struct")
    /\ output' = MapOpen(StructName(output, indent_level, SerTop.v.name), indent_level)
    /\ indent_level' = indent_level + 1
    /\ ser_stack' = <<[f |-> "entries", rest |-> SerTop.v.fields, st |-> "key"]>>
                        \o Tail(ser_stack)
    /\ UNCHANGED <<pc, ser_result>>
    /\ UNCHANGED deVars /\ UNCHANGED argVars

\* SerializeMap::serialize_key with a string key (a record's field name or a
\* map's String key): ser.rs:246-248
SerializeKey ==
    /\ SerEntries("key") /\ SerTop.rest # <<>>
    /\ output' = output \o Repeat(TAB, indent_level) \o StrText(SerTop.rest[1][1]) \o <<TAB>>
    /\ ser_stack' = <<[SerTop EXCEPT !.st = "value"]>> \o Tail(ser_stack)
    /\ UNCHANGED <<pc, indent_level, ser_result>>
    /\ UNCHANGED deVars /\ UNCHANGED argVars

\* SerializeMap::serialize_value up to value.serialize: ser.rs:256
SerializeValue ==
    /\ SerEntries("value")
    /\ ser_stack' = <<[f |-> "value", v |-> SerTop.rest[1][2]],
                      [SerTop EXCEPT !.st = "newline"]>> \o Tail(ser_stack)
    /\ UNCHANGED <<pc, output, indent_level, ser_result>>
    /\ UNCHANGED deVars /\ UNCHANGED argVars

\* SerializeMap::serialize_value after value.serialize returned Ok: ser.rs:257
SerializeValueEnd ==
    /\ SerEntries("newline")
    /\ output' = output \o <<NL>>
    /\ ser_stack' = <<[SerTop EXCEPT !.st = "key", !.rest = Tail(SerTop.rest)]>>
                        \o Tail(ser_stack)
    /\ UNCHANGED <<pc, indent_level, ser_result>>
    /\ UNCHANGED deVars /\ UNCHANGED argVars

\* SaturatingDec without the subtraction
NoDec(n) == n

\* usize::saturating_sub(1)
SaturatingDec(n) == IF n = 0 THEN 0 ELSE n - 1

\* SerializeMap::end and SerializeStruct::end
SerializeEnd ==
    /\ SerEntries("key") /\ SerTop.rest = <<>>
    /\ indent_level' = SaturatingDec(indent_level)
    /\ output' = output \o Repeat(TAB, indent_level') \o <<RBRACE>>
    /\ SerPop
    /\ UNCHANGED <<pc, ser_result>>
    /\ UNCHANGED deVars /\ UNCHANGED argVars

\* to_string, after value.serialize returned Ok: ser.rs:32
ToStringOk ==
    /\ pc = "ser" /\ ser_stack = <<>>
    /\ ser_result' = [ok |-> TRUE, text |-> output]
    /\ pc' = "ser_done"
    /\ UNCHANGED <<output, indent_level, ser_stack>>
    /\ UNCHANGED deVars /\ UNCHANGED argVars

(***************************************************************************)
(* Decoder (de.rs): the token buffer.                                      *)
(*                                                                         *)
(* Each operation gives [err, input, parsed_input, token, pulled]: the     *)
(* error ("none" if none), the two fields afterwards, the token it looked  *)
(* at, and how often the Token Source returned a token.                    *)
(***************************************************************************)
NoToken == [t |-> "none"]

\* parse_more's match on what the Token Source gave: de.rs:53-62
ParseMoreMatch(parsed, inp, queue) ==
    CASE parsed.kind = "Done" ->
           [err |-> "none", input |-> parsed.rest,
            parsed_input |-> Append(queue, parsed.token), token |-> NoToken, pulled |-> 1]
      [] parsed.kind = "Incomplete" ->
           [err |-> "EarlyEOF", input |-> inp, parsed_input |-> queue,
            token |-> NoToken, pulled |-> 0]
      [] OTHER ->
           [err |-> "Tokenize", input |-> inp, parsed_input |-> queue,
            token |-> NoToken, pulled |-> 0]

\* parse_more: de.rs:51-63
ParseMore(inp, queue) == ParseMoreMatch(ParserNext(inp), inp, queue)

\* ParseMoreIfNeeded without the test of the queue
ParseMoreAlways(inp, queue) == ParseMore(inp, queue)

\* parse_more_if_needed: de.rs:65-70
ParseMoreIfNeeded(inp, queue) ==
    IF queue = <<>> THEN ParseMore(inp, queue)
    ELSE [err |-> "none", input |-> inp, parsed_input |-> queue, token |-> NoToken, pulled |-> 0]

\* parsed_input.get(0).ok_or(EarlyEOF), after parse_more_if_needed gave r
QueueGet(r) ==
    IF r.err # "none" THEN r
    ELSE IF r.parsed_input = <<>> THEN [r EXCEPT !.err = "EarlyEOF"]
    ELSE [r EXCEPT !.token = r.parsed_input[1]]

\* parsed_input.pop_front().ok_or(EarlyEOF), after parse_more_if_needed gave r
QueuePopFront(r) ==
    IF r.err # "none" THEN r
    ELSE IF r.parsed_input = <<>> THEN [r EXCEPT !.err = "EarlyEOF"]
    ELSE [r EXCEPT !.token = Head(r.parsed_input), !.parsed_input = Tail(r.parsed_input)]

\* peek_token: de.rs:72-75
PeekToken(inp, queue) == QueueGet(ParseMoreIfNeeded(inp, queue))

\* next_token: de.rs:77-80
NextToken(inp, queue) == QueuePopFront(ParseMoreIfNeeded(inp, queue))

\* the match of next_token_item on the token r holds: de.rs:83-86
ItemOnly(r) ==
    IF r.err = "none" /\ r.token.t # "Item" THEN [r EXCEPT !.err = "Expected"] ELSE r

\* next_token_item: de.rs:82-87
NextTokenItem(inp, queue) == ItemOnly(NextToken(inp, queue))

(***************************************************************************)
(* Decoder: what each handler makes of the token it took.  Each gives      *)
(* [err, v].                                                               *)
(***************************************************************************)
NoValue == [k |-> "absent"]
Good(v) == [err |-> "none", v |-> v]
Bad(err) == [err |-> err, v |-> NoValue]

\* MatchBool with every item but "0" taken for true
MatchBoolLenient(token) ==
    IF token = Item(<<"0">>) THEN Good(VBool(FALSE))
    ELSE IF token.t = "Item" THEN Good(VBool(TRUE))
    ELSE Bad("Expected")

\* deserialize_bool: de.rs:102-106
MatchBool(token) ==
    IF token = Item(<<"0">>) THEN Good(VBool(FALSE))
    ELSE IF token = Item(<<"1">>) THEN Good(VBool(TRUE))
    ELSE Bad("Expected")

\* parse_next_token_data::<integer>: de.rs:89-91
ParseIntData(w, data) ==
    LET p == ParseInt(w, data)
    IN  IF p.ok THEN Good(VInt(w, p.n)) ELSE Bad("StringParse")

\* parse_next_token_data::<char>: a text of exactly one character
ParseCharData(data) ==
    IF Len(data) = 1 THEN Good(VChar(data[1])) ELSE Bad("StringParse")

\* VisitEnum with a variant access that hands out every shape of variant
VisitEnumAnyShape(ety, data) ==
    IF ~HasVariant(ety, data) THEN Bad("Message") ELSE Good(VVariant(ety, data))

\* visit_enum on the tag's text (de.rs:236): the derived visitor looks the tag
\* up among the variants, and the text's variant access has unit variants only;
\* both of the framework's errors reach Error::custom (error.rs:43-47).
VisitEnum(ety, data) ==
    IF ~HasVariant(ety, data) THEN Bad("Message")
    ELSE IF VariantShape(ety, data) # "unit" THEN Bad("Message")
    ELSE Good(VVariant(ety, data))

\* the value a record's derived visitor builds when the keys are exhausted:
\* every field in its declared place, an optional field that never came as
\* None, any other missing field an error
FieldIndexes(ty) == 1..Len(ty.fields)
HasField(ty, key) == \E i \in FieldIndexes(ty) : ty.fields[i][1] = key
FieldType(ty, key) == LET i == CHOOSE i \in FieldIndexes(ty) : ty.fields[i][1] = key
                      IN  ty.fields[i][2]
VisitMapEnd(ty, acc) ==
    IF ty.k = "map" THEN Good(VMap(ty.vt, acc))
    ELSE IF \E i \in FieldIndexes(ty) :
                ty.fields[i][1] \notin DOMAIN acc /\ ty.fields[i][2].k # "option"
         THEN Bad("Message")
    ELSE Good(VStruct(ty.name,
                      [i \in FieldIndexes(ty) |->
                          <<ty.fields[i][1],
                            IF ty.fields[i][1] \in DOMAIN acc THEN acc[ty.fields[i][1]]
                            ELSE VNone(ty.fields[i][2].t)>>]))

\* the entries so far with key set to v
Insert(acc, key, v) == [x \in DOMAIN acc \cup {key} |-> IF x = key THEN v ELSE acc[x]]

\* A decoded value goes back to the caller that waits for it: visit_some and
\* visit_newtype_struct wrap it, a visitor's loop stores it under the key it
\* read, from_str keeps it.
RECURSIVE Deliver(_, _)
Deliver(stack, v) ==
    LET top == Head(stack)
    IN  CASE top.f = "some" -> Deliver(Tail(stack), VSome(v))
          [] top.f = "newtype" -> Deliver(Tail(stack), VNewtype(top.name, v))
          [] top.f = "visit_map" ->
               <<[top EXCEPT !.acc = Insert(top.acc, top.key, v), !.st = "key"]>> \o Tail(stack)
          [] top.f = "from_str" -> <<[top EXCEPT !.st = "got", !.t = v]>>

(***************************************************************************)
(* Decoder: the handlers.                                                  *)
(*                                                                         *)
(* de_stack holds [f |-> "type", ty] for a T::deserialize that is about to *)
(* call the decoder, [f |-> "some"] and [f |-> "newtype", name] for a      *)
(* wrapper that waits for its inner value, [f |-> "visit_map", ty, acc,    *)
(* key, st] for the visitor's loop inside deserialize_map (st: key, value, *)
(* wait), [f |-> "group_end", val] for deserialize_map after the visitor   *)
(* returned val, and at the bottom [f |-> "from_str", st, t] for from_str  *)
(* itself.                                                                 *)
(***************************************************************************)
DeTop == Head(de_stack)
DeType(kind) == pc = "de" /\ de_stack # <<>> /\ DeTop.f = "type" /\ DeTop.ty.k = kind
DeFrame(f) == pc = "de" /\ de_stack # <<>> /\ DeTop.f = f

\* Deserializer::from_str: de.rs:22-28, and from_str up to T::deserialize: de.rs:39-40
NewDeStack(ty) == <<[f |-> "type", ty |-> ty], [f |-> "from_str", st |-> "wait", t |-> NoValue]>>

\* the buffer after a token operation r; a token that next_token returned is
\* recorded, also when the handler then refuses it
Took(r) ==
    /\ input' = r.input
    /\ parsed_input' = r.parsed_input
    /\ pulls' = pulls + r.pulled
    /\ consumed' = IF r.token # NoToken THEN Append(consumed, r.token) ELSE consumed

\* an Err goes up through every `?` and from_str returns it
DeFail(err) ==
    /\ de_result' = [ok |-> FALSE, err |-> err]
    /\ de_stack' = <<>>
    /\ pc' = "de_done"

DeReturn(v) ==
    /\ de_stack' = Deliver(Tail(de_stack), v)
    /\ UNCHANGED <<de_result, pc>>

\* the end of a handler that took one token with r and made out of it
DeFinish(r, out) ==
    IF r.err # "none" THEN DeFail(r.err)
    ELSE IF out.err # "none" THEN DeFail(out.err)
    ELSE DeReturn(out.v)

\* DeserializeUnsupported written as the handlers of the supported shapes are:
\* the next token is taken before the shape is refused
DeserializeUnsupportedAfterToken ==
    /\ pc = "de" /\ de_stack # <<>> /\ DeTop.f = "type"
    /\ DeTop.ty.k \in UnsupportedKinds \cup {"any"}
    /\ Took(NextToken(input, parsed_input))
    /\ DeFail("UnsupportedType")
    /\ UNCHANGED <<top_level, name_tokens, named_seen>>
    /\ UNCHANGED serVars /\ UNCHANGED argVars

\* deserialize_any, deserialize_bytes, deserialize_byte_buf, deserialize_unit,
\* deserialize_unit_struct, deserialize_seq, deserialize_tuple,
\* deserialize_tuple_struct
DeserializeUnsupported ==
    /\ pc = "de" /\ de_stack # <<>> /\ DeTop.f = "type"
    /\ DeTop.ty.k \in UnsupportedKinds \cup {"any"}
    /\ DeFail("UnsupportedType")
    /\ UNCHANGED <<input, parsed_input, top_level, consumed, pulls, name_tokens, named_seen>>
    /\ UNCHANGED serVars /\ UNCHANGED argVars

DeserializeBool ==
    /\ DeType("bool")
    /\ LET r == NextToken(input, parsed_input)
       IN  Took(r) /\ DeFinish(r, MatchBool(r.token))
    /\ UNCHANGED <<top_level, name_tokens, named_seen>>
    /\ UNCHANGED serVars /\ UNCHANGED argVars

\* deserialize_i8 .. deserialize_u64
DeserializeInt ==
    /\ DeType("int")
    /\ LET r == NextTokenItem(input, parsed_input)
       IN  Took(r) /\ DeFinish(r, IF r.err = "none" THEN ParseIntData(DeTop.ty.w, r.token.data)
                                  ELSE Bad(r.err))
    /\ UNCHANGED <<top_level, name_tokens, named_seen>>
    /\ UNCHANGED serVars /\ UNCHANGED argVars

DeserializeChar ==
    /\ DeType("char")
    /\ LET r == NextTokenItem(input, parsed_input)
       IN  Took(r) /\ DeFinish(r, IF r.err = "none" THEN ParseCharData(r.token.data)
                                  ELSE Bad(r.err))
    /\ UNCHANGED <<top_level, name_tokens, named_seen>>
    /\ UNCHANGED serVars /\ UNCHANGED argVars

\* deserialize_str and deserialize_string
DeserializeString ==
    /\ DeType("str")
    /\ LET r == NextTokenItem(input, parsed_input)
       IN  Took(r) /\ DeFinish(r, IF r.err = "none" THEN Good(VStr(r.token.data))
                                  ELSE Bad(r.err))
    /\ UNCHANGED <<top_level, name_tokens, named_seen>>
    /\ UNCHANGED serVars /\ UNCHANGED argVars

DeserializeEnum ==
    /\ DeType("enum")
    /\ LET r == NextTokenItem(input, parsed_input)
       IN  Took(r) /\ DeFinish(r, IF r.err = "none" THEN VisitEnum(DeTop.ty, r.token.data)
                                  ELSE Bad(r.err))
    /\ UNCHANGED <<top_level, name_tokens, named_seen>>
    /\ UNCHANGED serVars /\ UNCHANGED argVars

\* deserialize_option: visitor.visit_some(self)
DeserializeOption ==
    /\ DeType("option")
    /\ de_stack' = <<[f |-> "type", ty |-> DeTop.ty.t], [f |-> "some"]>> \o Tail(de_stack)
    /\ UNCHANGED <<pc, input, parsed_input, top_level, de_result, consumed, pulls, name_tokens,
                   named_seen>>
    /\ UNCHANGED serVars /\ UNCHANGED argVars

\* NameCheck without `self.top_level = false`
NameCheckKeepsFlag(r, name) ==
    [err |-> IF r.err # "none" THEN r.err
             ELSE IF r.token = Item(name) THEN "none" ELSE "Expected",
     input |-> r.input, parsed_input |-> r.parsed_input, token |-> r.token,
     pulled |-> r.pulled,
     top_level |-> TRUE,
     took |-> r.err = "none"]

\* NameCheck with any item taken for the name
NameCheckAnyItem(r, name) ==
    [err |-> IF r.err # "none" THEN r.err
             ELSE IF r.token.t = "Item" THEN "none" ELSE "Expected",
     input |-> r.input, parsed_input |-> r.parsed_input, token |-> r.token,
     pulled |-> r.pulled,
     top_level |-> ~(r.err = "none" /\ r.token.t = "Item"),
     took |-> r.err = "none"]

\* The name step of deserialize_newtype_struct and deserialize_struct
\* (de.rs:182-189, 224-231) gives [err, input, parsed_input, token, pulled,
\* top_level, took], took saying whether a token was consumed.  NameCheck is
\* the step once next_token gave r.
NameCheck(r, name) ==
    [err |-> IF r.err # "none" THEN r.err
             ELSE IF r.token = Item(name) THEN "none" ELSE "Expected",
     input |-> r.input, parsed_input |-> r.parsed_input, token |-> r.token,
     pulled |-> r.pulled,
     top_level |-> ~(r.err = "none" /\ r.token = Item(name)),
     took |-> r.err = "none"]

NameStep(inp, queue, top, name) ==
    IF top THEN NameCheck(NextToken(inp, queue), name)
    ELSE [err |-> "none", input |-> inp, parsed_input |-> queue,
          token |-> NoToken, pulled |-> 0, top_level |-> top, took |-> FALSE]

DeserializeNewtypeStruct ==
    /\ DeType("newtype")
    /\ LET n == NameStep(input, parsed_input, top_level, DeTop.ty.name)
       IN  /\ input' = n.input
           /\ parsed_input' = n.parsed_input
           /\ top_level' = n.top_level
           /\ pulls' = pulls + n.pulled
           /\ consumed' = IF n.took THEN Append(consumed, n.token) ELSE consumed
           /\ name_tokens' = IF n.took THEN name_tokens + 1 ELSE name_tokens
           /\ named_seen' = named_seen + 1
           /\ IF n.err # "none" THEN DeFail(n.err)
              ELSE /\ de_stack' = <<[f |-> "type", ty |-> DeTop.ty.t],
                                    [f |-> "newtype", name |-> DeTop.ty.name]>>
                                      \o Tail(de_stack)
                   /\ UNCHANGED <<pc, de_result>>
    /\ UNCHANGED serVars /\ UNCHANGED argVars

\* deserialize_map up to visitor.visit_map: de.rs:206-208 and 214, on the
\* buffer
GroupStartOnly(r) ==
    IF r.err = "none" /\ r.token # GroupStart THEN [r EXCEPT !.err = "Expected"] ELSE r

GroupStep(inp, queue) == GroupStartOnly(NextToken(inp, queue))

VisitMapFrame(ty) == [f |-> "visit_map", ty |-> ty, acc |-> <<>>, key |-> <<>>, st |-> "key"]

DeserializeMap ==
    /\ DeType("map")
    /\ LET r == GroupStep(input, parsed_input)
       IN  /\ input' = r.input
           /\ parsed_input' = r.parsed_input
           /\ pulls' = pulls + r.pulled
           /\ consumed' = IF r.token # NoToken THEN Append(consumed, r.token) ELSE consumed
           /\ IF r.err # "none" THEN DeFail(r.err)
              ELSE /\ de_stack' = <<VisitMapFrame(DeTop.ty)>> \o Tail(de_stack)
                   /\ UNCHANGED <<pc, de_result>>
    /\ UNCHANGED <<top_level, name_tokens, named_seen>>
    /\ UNCHANGED serVars /\ UNCHANGED argVars

\* deserialize_map for a type with a Deserialize written by hand whose
\* visit_map returns a value without asking for a key: de.rs:206-208, and then
\* de.rs:209-212 as for every map
TNoEntries == [k |-> "map_no_entries"]
VNoEntries == [k |-> "no_entries"]

DeserializeMapNoEntries ==
    /\ DeType("map_no_entries")
    /\ LET r == GroupStep(input, parsed_input)
       IN  /\ input' = r.input
           /\ parsed_input' = r.parsed_input
           /\ pulls' = pulls + r.pulled
           /\ consumed' = IF r.token # NoToken THEN Append(consumed, r.token) ELSE consumed
           /\ IF r.err # "none" THEN DeFail(r.err)
              ELSE /\ de_stack' = <<[f |-> "group_end", val |-> VNoEntries]>> \o Tail(de_stack)
                   /\ UNCHANGED <<pc, de_result>>
    /\ UNCHANGED <<top_level, name_tokens, named_seen>>
    /\ UNCHANGED serVars /\ UNCHANGED argVars

\* deserialize_struct (de.rs:218-233) up to visitor.visit_map, on the buffer:
\* the name step n, then deserialize_map's; tokens are the tokens consumed
StructGroup(n, r) ==
    [err |-> r.err, input |-> r.input, parsed_input |-> r.parsed_input,
     top_level |-> n.top_level, pulled |-> n.pulled + r.pulled,
     tokens |-> (IF n.took THEN <<n.token>> ELSE <<>>)
                    \o (IF r.token # NoToken THEN <<r.token>> ELSE <<>>),
     took |-> n.took]

StructAfterName(n) ==
    IF n.err # "none"
    THEN [err |-> n.err, input |-> n.input, parsed_input |-> n.parsed_input,
          top_level |-> n.top_level, pulled |-> n.pulled,
          tokens |-> IF n.took THEN <<n.token>> ELSE <<>>, took |-> n.took]
    ELSE StructGroup(n, GroupStep(n.input, n.parsed_input))

StructStep(inp, queue, top, name) == StructAfterName(NameStep(inp, queue, top, name))

DeserializeStruct ==
    /\ DeType("struct")
    /\ LET s == StructStep(input, parsed_input, top_level, DeTop.ty.name)
       IN  /\ input' = s.input
           /\ parsed_input' = s.parsed_input
           /\ top_level' = s.top_level
           /\ pulls' = pulls + s.pulled
           /\ consumed' = consumed \o s.tokens
           /\ name_tokens' = IF s.took THEN name_tokens + 1 ELSE name_tokens
           /\ named_seen' = named_seen + 1
           /\ IF s.err # "none" THEN DeFail(s.err)
              ELSE /\ de_stack' = <<VisitMapFrame(DeTop.ty)>> \o Tail(de_stack)
                   /\ UNCHANGED <<pc, de_result>>
    /\ UNCHANGED serVars /\ UNCHANGED argVars

\* MapAccess::next_key_seed (de.rs:263-273) with a key that is a field
\* identifier or a String (deserialize_identifier, deserialize_str,
\* deserialize_string: next_token_item), then the visitor up to its next call:
\* at the end of the entries it builds its value and returns to
\* deserialize_map; a record's visitor refuses a field it has seen.
NextKeySeed ==
    /\ DeFrame("visit_map") /\ DeTop.st = "key"
    /\ LET p == PeekToken(input, parsed_input)
           r == IF p.err = "none" /\ p.token # GroupEnd
                THEN NextTokenItem(p.input, p.parsed_input)
                ELSE p
       IN  /\ input' = r.input
           /\ parsed_input' = r.parsed_input
           /\ pulls' = pulls + p.pulled
           /\ consumed' = IF p.err = "none" /\ p.token # GroupEnd
                          THEN Append(consumed, r.token) ELSE consumed
           /\ IF r.err # "none" THEN DeFail(r.err)
              ELSE IF p.token = GroupEnd
              THEN LET out == VisitMapEnd(DeTop.ty, DeTop.acc)
                   IN  IF out.err # "none" THEN DeFail(out.err)
                       ELSE /\ de_stack' = <<[f |-> "group_end", val |-> out.v]>>
                                               \o Tail(de_stack)
                            /\ UNCHANGED <<pc, de_result>>
              ELSE IF DeTop.ty.k = "struct" /\ r.token.data \in DOMAIN DeTop.acc
              THEN DeFail("Message")
              ELSE /\ de_stack' = <<[DeTop EXCEPT !.key = r.token.data, !.st = "value"]>>
                                      \o Tail(de_stack)
                   /\ UNCHANGED <<pc, de_result>>
    /\ UNCHANGED <<top_level, name_tokens, named_seen>>
    /\ UNCHANGED serVars /\ UNCHANGED argVars

\* MapAccess::next_value_seed (de.rs:275-281): seed.deserialize for the type
\* of the entry; a key that is no field of the record has its value skipped
\* with deserialize_ignored_any, which forwards to deserialize_any
\* (de.rs:243-245, 97-99)
NextValueSeed ==
    /\ DeFrame("visit_map") /\ DeTop.st = "value"
    /\ IF DeTop.ty.k = "struct" /\ ~HasField(DeTop.ty, DeTop.key)
       THEN DeFail("UnsupportedType")
       ELSE /\ de_stack' = <<[f |-> "type",
                              ty |-> IF DeTop.ty.k = "struct"
                                     THEN FieldType(DeTop.ty, DeTop.key)
                                     ELSE DeTop.ty.vt],
                             [DeTop EXCEPT !.st = "wait"]>> \o Tail(de_stack)
            /\ UNCHANGED <<pc, de_result>>
    /\ UNCHANGED <<input, parsed_input, top_level, consumed, pulls, name_tokens, named_seen>>
    /\ UNCHANGED serVars /\ UNCHANGED argVars

\* GroupEndOnly with any token taken for the closing delimiter
GroupEndAny(r) == r

\* deserialize_map after visitor.visit_map returned: de.rs:209-212
GroupEndOnly(r) ==
    IF r.err = "none" /\ r.token # GroupEnd THEN [r EXCEPT !.err = "Expected"] ELSE r

GroupEndStep(inp, queue) == GroupEndOnly(NextToken(inp, queue))

DeserializeMapEnd ==
    /\ DeFrame("group_end")
    /\ LET r == GroupEndStep(input, parsed_input)
       IN  /\ input' = r.input
           /\ parsed_input' = r.parsed_input
           /\ pulls' = pulls + r.pulled
           /\ consumed' = IF r.token # NoToken THEN Append(consumed, r.token) ELSE consumed
           /\ IF r.err # "none" THEN DeFail(r.err) ELSE DeReturn(DeTop.val)
    /\ UNCHANGED <<top_level, name_tokens, named_seen>>
    /\ UNCHANGED serVars /\ UNCHANGED argVars

\* FromStrCheck without trim_end
FromStrCheckNoTrim(remaining, t) ==
    IF remaining = <<>> THEN [ok |-> TRUE, t |-> t] ELSE [ok |-> FALSE, err |-> "LateEOF"]

\* from_str after T::deserialize returned Ok(t): de.rs:42-47
FromStrCheck(remaining, t) ==
    IF TrimEnd(remaining) = <<>> THEN [ok |-> TRUE, t |-> t] ELSE [ok |-> FALSE, err |-> "LateEOF"]

FromStrEnd ==
    /\ DeFrame("from_str") /\ DeTop.st = "got"
    /\ de_result' = FromStrCheck(input, DeTop.t)
    /\ de_stack' = <<>>
    /\ pc' = "de_done"
    /\ UNCHANGED <<input, parsed_input, top_level, consumed, pulls, name_tokens, named_seen>>
    /\ UNCHANGED serVars /\ UNCHANGED argVars

\* the doc test's from_str(&to_string(&data)?): lib.rs:131
RoundTrip ==
    /\ pc = "ser_done" /\ ser_result.ok
    /\ arg_text' = ser_result.text
    /\ input' = ser_result.text
    /\ parsed_input' = <<>>
    /\ top_level' = TRUE
    /\ de_stack' = NewDeStack(arg_type)
    /\ pc' = "de"
    /\ UNCHANGED <<arg_value, arg_type, de_result, consumed, pulls, name_tokens, named_seen>>
    /\ UNCHANGED serVars

(***************************************************************************)
(* The runs of the model: the values given to to_string and the types and  *)
(* texts given to from_str.                                                *)
(***************************************************************************)
\* the characters serialize_str escapes, and two it does not
EscAlphabet == {BSLASH, QUOTE, TAB, NL, "n", "a"}
StringsUpTo(n) == UNION {[1..len -> EscAlphabet] : len \in 0..n}

\* enum E { A, B, C(u8), D(u8, bool), F { x: u8 } }
EnumE ==
    TEnum(<<"E">>, <<[tag |-> <<"A">>, shape |-> "unit"],
                     [tag |-> <<"B">>, shape |-> "unit"],
                     [tag |-> <<"C">>, shape |-> "newtype"],
                     [tag |-> <<"D">>, shape |-> "tuple"],
                     [tag |-> <<"F">>, shape |-> "struct"]>>)

Key(c) == <<c>>
OneEntry(key, v) == [x \in {key} |-> v]
TwoEntries(k1, v1, k2, v2) == [x \in {k1, k2} |-> IF x = k1 THEN v1 ELSE v2]

SupportedLeaves ==
    {VBool(FALSE), VBool(TRUE)}
    \cup {VInt("i8", -128), VInt("i8", 127), VInt("u8", 255), VInt("i16", -32768),
          VInt("u16", 65535), VInt("i32", -67), VInt("u32", 1), VInt("i64", -890),
          VInt("u64", 901), VInt("u8", 0)}
    \cup {VStr(<<>>), VStr(<<"b", "a", "z">>), VStr(<<BSLASH, "n">>), VStr(<<QUOTE>>),
          VStr(<<TAB, NL>>), VStr(<<"a", SPACE, "b">>)}
    \cup {VChar("a"), VChar(QUOTE), VChar(NL), VChar(BSLASH), VChar(SPACE), VChar(LBRACE)}
    \cup {VVariant(EnumE, <<"A">>), VVariant(EnumE, <<"B">>)}
    \cup {VSome(VStr(<<"b", "a", "z">>)), VSome(VBool(TRUE)), VSome(VSome(VInt("u8", 3)))}
    \cup {VNewtype(<<"N">>, VInt("u8", 3)), VNewtype(<<"N">>, VStr(<<QUOTE>>))}
    \cup {VMap(TStr, <<>>),
          VMap(TStr, OneEntry(<<"h", "i">>, VStr(<<"y", "o">>))),
          VMap(TStr, TwoEntries(<<"a">>, VStr(<<"x">>), <<TAB>>, VStr(<<>>))),
          VMap(TBool, TwoEntries(<<"a">>, VBool(TRUE), <<"b">>, VBool(FALSE)))}

RejectedLeaves ==
    {VUnsupported(kind) : kind \in UnsupportedKinds}
    \cup {VNone(TStr)}
    \cup {VVariant(EnumE, <<"C">>), VVariant(EnumE, <<"D">>), VVariant(EnumE, <<"F">>)}

Leaves == SupportedLeaves \cup RejectedLeaves

\* struct I { y: .. } and struct S { x: .., i: I }
RecordI(y) == VStruct(<<"I">>, <<<<Key("y"), y>>>>)
RecordS(x, y) == VStruct(<<"S">>, <<<<Key("x"), x>>, <<Key("i"), RecordI(y)>>>>)

\* the record of the encoder's and the decoder's unit test: ser.rs:293-311
TestValue(int, foo, bar) ==
    VStruct(<<"T", "e", "s", "t">>,
            <<<<<<"i", "n", "t">>, VInt("u32", int)>>,
              <<<<"i", "n", "n", "e", "r">>,
                VStruct(<<"I", "n", "n", "e", "r">>,
                        <<<<<<"f", "o", "o">>, VStr(foo)>>,
                          <<<<"b", "a", "r">>, VBool(bar)>>>>)>>>>)

\* a single-field wrapper around a map and around a record, and a map of records
TopLevelShapes ==
    {VNewtype(<<"W">>, VMap(TStr, OneEntry(<<"h", "i">>, VStr(<<"y", "o">>)))),
     VNewtype(<<"W">>, RecordI(VBool(TRUE))),
     VMap(TypeOf(RecordI(VBool(TRUE))), OneEntry(<<"a">>, RecordI(VBool(TRUE)))),
     VStruct(<<"S">>, <<>>)}

ToStringValues ==
    {VStr(s) : s \in StringsUpTo(MaxStrLen)}
    \cup Leaves
    \cup {RecordS(x, y) : x \in Leaves, y \in Leaves}
    \cup {TestValue(1, <<"b", "a", "z">>, FALSE), TestValue(0, <<QUOTE>>, TRUE)}
    \cup TopLevelShapes

\* Hand-made documents: up to MaxDocTokens pieces, one per line, and a blank
\* and a newline after the last.
DocPieces ==
    {<<LBRACE>>, <<RBRACE>>, <<QUOTE, "A", QUOTE>>, <<QUOTE, "B", QUOTE>>,
     <<QUOTE, "k", QUOTE>>, <<QUOTE, "0", QUOTE>>, <<"1">>}

RECURSIVE Lines(_)
Lines(pieces) ==
    IF pieces = <<>> THEN <<>> ELSE Head(pieces) \o <<NL>> \o Lines(Tail(pieces))

Docs == {Lines(ps) \o <<SPACE, NL>> : ps \in UNION {[1..n -> DocPieces] : n \in 0..MaxDocTokens}}

\* enum A { A, B(u8) }
EnumA == TEnum(<<"A">>, <<[tag |-> <<"A">>, shape |-> "unit"],
                         [tag |-> <<"B">>, shape |-> "newtype"]>>)

FromStrTypes ==
    {TBool, TInt("u8"), TStr, TChar, EnumA,
     TMap(TBool),
     TMap(TMap(TBool)),
     TOption(TBool),
     TStruct(<<"A">>, <<<<Key("k"), TBool>>>>),
     TStruct(<<"A">>, <<<<Key("k"), TOption(TBool)>>>>),
     TStruct(<<"A">>, <<<<Key("k"), TStruct(<<"B">>, <<>>)>>>>),
     TNewtype(<<"A">>, TMap(TBool)),
     TNewtype(<<"A">>, TNewtype(<<"B">>, TBool)),
     TMap(TStruct(<<"A">>, <<>>)),
     TNoEntries,
     TMap(TNoEntries)}
    \cup {TUnsupported(kind) : kind \in UnsupportedKinds \cup {"any"}}
    \cup {TMap(TUnsupported(kind)) : kind \in {"seq", "any"}}

(***************************************************************************)
(* The specification.                                                      *)
(***************************************************************************)
\* to_string up to value.serialize: ser.rs:27-31
InitToString ==
    /\ pc = "ser"
    /\ arg_value \in ToStringValues
    /\ arg_type = TypeOf(arg_value)
    /\ arg_text = <<>>
    /\ output = <<>>
    /\ indent_level = 0
    /\ ser_stack = <<[f |-> "value", v |-> arg_value]>>
    /\ input = <<>>
    /\ de_stack = <<>>

\* from_str up to T::deserialize: de.rs:39-40
InitFromStr ==
    /\ pc = "de"
    /\ arg_value = NoValue
    /\ arg_type \in FromStrTypes
    /\ arg_text \in Docs
    /\ output = <<>>
    /\ indent_level = 0
    /\ ser_stack = <<>>
    /\ input = arg_text
    /\ de_stack = NewDeStack(arg_type)

Init ==
    /\ (InitToString \/ InitFromStr)
    /\ ser_result = NoResult
    /\ parsed_input = <<>>
    /\ top_level = TRUE
    /\ de_result = NoResult
    /\ consumed = <<>>
    /\ pulls = 0
    /\ name_tokens = 0
    /\ named_seen = 0

Next ==
    \/ SerializeBool
    \/ SerializeInt
    \/ SerializeChar
    \/ SerializeStr
    \/ SerializeUnitVariant
    \/ SerializeUnsupported
    \/ SerializeSome
    \/ SerializeNewtypeStruct
    \/ SerializeMap
    \/ SerializeStruct
    \/ SerializeKey
    \/ SerializeValue
    \/ SerializeValueEnd
    \/ SerializeEnd
    \/ ToStringOk
    \/ RoundTrip
    \/ DeserializeUnsupported
    \/ DeserializeBool
    \/ DeserializeInt
    \/ DeserializeChar
    \/ DeserializeString
    \/ DeserializeEnum
    \/ DeserializeOption
    \/ DeserializeNewtypeStruct
    \/ DeserializeMap
    \/ DeserializeMapNoEntries
    \/ DeserializeStruct
    \/ NextKeySeed
    \/ NextValueSeed
    \/ DeserializeMapEnd
    \/ FromStrEnd

Spec == Init /\ [][Next]_vars

(***************************************************************************)
(* Properties: the round trip, the layout and the escaping.                *)
(***************************************************************************)
\* the shapes the round trip is stated for, below a named record
RECURSIVE IsSupported(_)
IsSupported(v) ==
    CASE v.k \in {"bool", "int", "str", "char"} -> TRUE
      [] v.k = "variant" -> VariantShape(v.ety, v.tag) = "unit"
      [] v.k \in {"some", "newtype"} -> IsSupported(v.v)
      [] v.k = "struct" -> \A i \in DOMAIN v.fields : IsSupported(v.fields[i][2])
      [] v.k = "map" -> \A key \in DOMAIN v.m : IsSupported(v.m[key])
      [] OTHER -> FALSE

IsSupportedRecord(v) == v # NoValue /\ v.k = "struct" /\ IsSupported(v)

\* C1: for every named record v whose fields are booleans, integers, strings,
\* characters, unit-like enum variants, present optionals, single-field
\* wrappers, named records and string-keyed maps, to_string(v) gives a text,
\* and from_str of that text gives a value equal to v.
C1_RoundTrip ==
    IsSupportedRecord(arg_value) =>
        /\ pc = "ser_done" => ser_result.ok
        /\ pc = "de" => ser_result.ok /\ arg_text = ser_result.text
        /\ pc = "de_done" => de_result = [ok |-> TRUE, t |-> arg_value]

\* a record with a two-entry map, one key a tab, and a nested record with an
\* optional of an optional, encoded and decoded back
C1_Witness ==
    /\ pc = "de_done"
    /\ arg_value = RecordS(VMap(TStr, TwoEntries(<<"a">>, VStr(<<"x">>), <<TAB>>, VStr(<<>>))),
                           VSome(VSome(VInt("u8", 3))))
    /\ de_result.ok
    /\ Len(consumed) = 15

\* the text of the unit test: ser.rs:312-322
TestExpected ==
    <<QUOTE, "T", "e", "s", "t", QUOTE, NL,
      LBRACE, NL,
      TAB, QUOTE, "i", "n", "t", QUOTE, TAB, QUOTE, "1", QUOTE, NL,
      TAB, QUOTE, "i", "n", "n", "e", "r", QUOTE, NL,
      TAB, LBRACE, NL,
      TAB, TAB, QUOTE, "f", "o", "o", QUOTE, TAB, QUOTE, "b", "a", "z", QUOTE, NL,
      TAB, TAB, QUOTE, "b", "a", "r", QUOTE, TAB, QUOTE, "0", QUOTE, NL,
      TAB, RBRACE, NL,
      RBRACE>>

\* the quoted text of a scalar
ScalarText(v) ==
    CASE v.k = "bool" -> BoolText(v.b)
      [] v.k = "int" -> IntText(v.n)
      [] v.k = "str" -> StrText(v.s)
      [] v.k = "char" -> StrText(<<v.c>>)
      [] v.k = "variant" -> StrText(v.tag)

IsScalar(v) ==
    \/ v.k \in {"bool", "int", "str", "char"}
    \/ v.k = "variant" /\ VariantShape(v.ety, v.tag) = "unit"

\* one entry with a scalar value at a nesting level
EntryLine(level, key, v) ==
    Repeat(TAB, level) \o <<QUOTE>> \o key \o <<QUOTE, TAB>> \o ScalarText(v) \o <<NL>>

\* the layout of struct S { x, i: I { y } } with scalars x and y
LayoutS(x, y) ==
    <<QUOTE, "S", QUOTE, NL, LBRACE, NL>>
        \o EntryLine(1, Key("x"), x)
        \o <<TAB, QUOTE, "i", QUOTE, NL, TAB, LBRACE, NL>>
        \o EntryLine(2, Key("y"), y)
        \o <<TAB, RBRACE, NL, RBRACE>>

IsScalarS(v) ==
    /\ v # NoValue /\ v.k = "struct" /\ v.name = <<"S">> /\ Len(v.fields) = 2
    /\ IsScalar(v.fields[1][2])
    /\ IsScalar(v.fields[2][2].fields[1][2])

\* C2: a named record nested one level deep is laid out as the outermost
\* record's quoted name, newline, brace, newline, every scalar entry as tabs,
\* quoted key, tab, quoted scalar, newline, the nested record as quoted key
\* without the separator tab, newline, tabs, brace, newline, its entries one
\* level deeper, tabs, closing brace, newline, and a last closing brace with no
\* newline; the record Test { int: 1, inner: { foo: "baz", bar: false } }
\* gives exactly the unit test's text.
C2_Layout ==
    pc = "ser_done" =>
        /\ arg_value = TestValue(1, <<"b", "a", "z">>, FALSE) =>
               ser_result = [ok |-> TRUE, text |-> TestExpected]
        /\ IsScalarS(arg_value) =>
               ser_result = [ok |-> TRUE,
                             text |-> LayoutS(arg_value.fields[1][2],
                                              arg_value.fields[2][2].fields[1][2])]

C2_Witness ==
    /\ pc = "ser_done"
    /\ arg_value = TestValue(1, <<"b", "a", "z">>, FALSE)
    /\ ser_result.ok
    /\ Len(output) = 62

\* the two-character escape of one character, or the character itself
EscChar(c) ==
    CASE c = BSLASH -> <<BSLASH, BSLASH>>
      [] c = NL -> <<BSLASH, "n">>
      [] c = TAB -> <<BSLASH, "t">>
      [] c = QUOTE -> <<BSLASH, QUOTE>>
      [] OTHER -> <<c>>

\* esc: every character of s escaped once
RECURSIVE Esc(_)
Esc(s) == IF s = <<>> THEN <<>> ELSE EscChar(Head(s)) \o Esc(Tail(s))

\* no raw tab, no raw newline, no double quote that a backslash does not escape
RECURSIVE NoRawSpecial(_)
NoRawSpecial(e) ==
    IF e = <<>> THEN TRUE
    ELSE IF Head(e) = BSLASH THEN Len(e) >= 2 /\ NoRawSpecial(Tail(Tail(e)))
    ELSE Head(e) \notin {TAB, NL, QUOTE} /\ NoRawSpecial(Tail(e))

\* the inverse of Esc: a backslash and the character after it give one
\* character
RECURSIVE Unesc(_)
Unesc(e) ==
    IF e = <<>> THEN <<>>
    ELSE IF Head(e) = BSLASH /\ Len(e) >= 2
         THEN UnescapeChar(e[2]) \o Unesc(Tail(Tail(e)))
    ELSE <<Head(e)>> \o Unesc(Tail(e))

\* C3: for every string s over backslash, double quote, tab, newline and two
\* ordinary characters, serialize_str emits a quote, esc(s) and a quote, where
\* esc replaces backslash, newline, tab and double quote, in that order, by
\* their two-character escapes; unescaping esc(s) gives s back, the token
\* source reads the emitted text as the one item s, and esc(s) has no raw tab,
\* no raw newline and no unescaped double quote.
C3_Escaping ==
    (pc = "ser_done" /\ arg_value # NoValue /\ arg_value.k = "str") =>
        /\ ser_result = [ok |-> TRUE,
                         text |-> <<QUOTE>> \o Esc(arg_value.s) \o <<QUOTE>>]
        /\ Escape(arg_value.s) = Esc(arg_value.s)
        /\ Unesc(Esc(arg_value.s)) = arg_value.s
        /\ ParserNext(output) = [kind |-> "Done", rest |-> <<>>, token |-> Item(arg_value.s)]
        /\ NoRawSpecial(Esc(arg_value.s))

\* a string with all four escaped characters
C3_Witness ==
    /\ pc = "ser_done"
    /\ arg_value = VStr(<<BSLASH, QUOTE, TAB, NL>>)
    /\ output = <<QUOTE, BSLASH, BSLASH, BSLASH, QUOTE, BSLASH, "t", BSLASH, "n", QUOTE>>


(***************************************************************************)
(* Properties: the top-level name, the trailing content and the shapes the *)
(* decoder refuses.                                                        *)
(***************************************************************************)
\* first is the token source's answer on the whole document
FirstTokenIsNot(first, name) == first.kind = "Done" /\ first.token # Item(name)

\* C4: when from_str decodes a named record type and the first token of the
\* document is not an item with the type's name (another name, a GroupStart
\* or a GroupEnd), nothing is decoded before that token is refused, and the
\* run ends with Expected and no value whatever the other tokens are.
C4_NameEnforced ==
    (pc \in {"de", "de_done"} /\ arg_type.k = "struct"
         /\ FirstTokenIsNot(ParserNext(arg_text), arg_type.name)) =>
        /\ pc = "de" => consumed = <<>> /\ de_stack = NewDeStack(arg_type)
        /\ pc = "de_done" =>
               /\ de_result = [ok |-> FALSE, err |-> "Expected"]
               /\ consumed = <<ParserNext(arg_text).token>>

\* the document "B" { } for struct A { k: Option<bool> }: well formed after
\* the name, and refused
C4_Witness ==
    /\ pc = "de_done"
    /\ arg_type = TStruct(<<"A">>, <<<<Key("k"), TOption(TBool)>>>>)
    /\ arg_text = Lines(<<<<QUOTE, "B", QUOTE>>, <<LBRACE>>, <<RBRACE>>>>) \o <<SPACE, NL>>
    /\ de_result = [ok |-> FALSE, err |-> "Expected"]

OnlyWhitespace(s) == \A i \in 1..Len(s) : s[i] \in {SPACE, TAB, NL}

FromStrHasValue == DeFrame("from_str") /\ DeTop.st = "got"

\* C5: once the top-level value is decoded, from_str returns it if and only
\* if the input not consumed is whitespace only, and returns LateEOF instead
\* if anything else remains; a run ends with a value or with LateEOF in no
\* other way.
C5_TrailingContent ==
    [][/\ FromStrHasValue =>
              de_result' = IF OnlyWhitespace(input) THEN [ok |-> TRUE, t |-> DeTop.t]
                           ELSE [ok |-> FALSE, err |-> "LateEOF"]
       /\ (pc = "de" /\ pc' = "de_done" /\ ~FromStrHasValue) =>
              ~de_result'.ok /\ de_result'.err # "LateEOF"]_vars

\* the document "A" { } for struct A { k: Option<bool> }, returned with a
\* newline, a blank and a newline left in the input
C5_Witness ==
    /\ pc = "de_done"
    /\ arg_type = TStruct(<<"A">>, <<<<Key("k"), TOption(TBool)>>>>)
    /\ de_result.ok
    /\ input = <<NL, SPACE, NL>>

\* C6: a decode request for a byte array, a unit, a unit-like record, a
\* sequence, a tuple, a tuple-like record or any shape fails at once with
\* UnsupportedType; no token is pulled from the token source, and the input,
\* the token queue and the top-level flag are as before the request.
C6_UnsupportedDecode ==
    [][(pc = "de" /\ de_stack # <<>> /\ DeTop.f = "type"
           /\ DeTop.ty.k \in {"bytes", "unit", "unit_struct", "seq", "tuple",
                              "tuple_struct", "any"}) =>
          /\ pc' = "de_done"
          /\ de_result' = [ok |-> FALSE, err |-> "UnsupportedType"]
          /\ UNCHANGED <<input, parsed_input, top_level, pulls, consumed, name_tokens>>]_vars

\* a map whose values are sequences: refused at the first value, with the
\* rest of the document still in the input
C6_Witness ==
    /\ pc = "de_done"
    /\ arg_type = TMap(TUnsupported("seq"))
    /\ de_result = [ok |-> FALSE, err |-> "UnsupportedType"]
    /\ consumed = <<GroupStart, Item(<<"k">>)>>
    /\ pulls = 2
    /\ input = <<NL, LBRACE, NL, RBRACE, NL, SPACE, NL>>


(***************************************************************************)
(* Properties: enums, the shapes the encoder refuses, booleans and the     *)
(* top-level flag.                                                         *)
(***************************************************************************)
\* r is the token at the front, ety the enum asked for
SelectsUnitVariant(r, ety) ==
    /\ r.err = "none" /\ r.token.t = "Item"
    /\ HasVariant(ety, r.token.data) /\ VariantShape(ety, r.token.data) = "unit"

SelectsDataVariant(r, ety) ==
    /\ r.err = "none" /\ r.token.t = "Item"
    /\ HasVariant(ety, r.token.data) /\ VariantShape(ety, r.token.data) # "unit"

C7_Outcome(r, ety) ==
    /\ r.err = "none" => consumed' = Append(consumed, r.token) /\ pulls' <= pulls + 1
    /\ SelectsUnitVariant(r, ety) =>
           /\ pc' = "de"
           /\ de_stack' = Deliver(Tail(de_stack), VVariant(ety, r.token.data))
    /\ SelectsDataVariant(r, ety) =>
           /\ pc' = "de_done"
           /\ de_result' = [ok |-> FALSE, err |-> "Message"]
    /\ (r.err = "none" /\ r.token.t # "Item") =>
           /\ pc' = "de_done"
           /\ de_result' = [ok |-> FALSE, err |-> "Expected"]

\* C7: decoding an enum consumes exactly one token; an item whose text is the
\* tag of a unit-like variant decodes to that variant, and an item whose text
\* is the tag of a variant that carries data (single-field, tuple-like or
\* record-like) is refused with a Message error once it has been consumed.
C7_EnumDecode ==
    [][DeType("enum") => C7_Outcome(PeekToken(input, parsed_input), DeTop.ty)]_vars

\* C7 as the specification words it: a variant that carries data is refused
\* with UnsupportedType and no token is consumed.
C7_DataVariantUnsupportedNoToken ==
    [][(DeType("enum") /\ SelectsDataVariant(PeekToken(input, parsed_input), DeTop.ty)) =>
          /\ de_result' = [ok |-> FALSE, err |-> "UnsupportedType"]
          /\ consumed' = consumed
          /\ pulls' = pulls]_vars

\* enum A { A, B(u8) } asked for on the document "B" ..: the tag is consumed
\* and the error is a Message
C7_Witness ==
    /\ pc = "de_done"
    /\ arg_type = EnumA
    /\ consumed = <<Item(<<"B">>)>>
    /\ pulls = 1
    /\ de_result = [ok |-> FALSE, err |-> "Message"]

C8_Refused(v) ==
    \/ v.k \in {"none", "bytes", "unit", "unit_struct", "seq", "tuple", "tuple_struct"}
    \/ v.k = "variant" /\ VariantShape(v.ety, v.tag) \in {"newtype", "tuple", "struct"}

\* C8: an encode request for an absent optional, a byte array, a unit, a
\* unit-like record, a sequence, a tuple, a tuple-like record or an enum
\* variant with data fails with a Message error, the output and the indent
\* level are as before the request, and to_string returns the error and no
\* text.
C8_UnsupportedEncode ==
    [][(pc = "ser" /\ ser_stack # <<>> /\ SerTop.f = "value" /\ C8_Refused(SerTop.v)) =>
          /\ output' = output
          /\ indent_level' = indent_level
          /\ pc' = "ser_done"
          /\ ser_result' = [ok |-> FALSE, err |-> "Message"]]_vars

\* struct S { x: true, i: I { y: None } }: refused at y with the text written
\* so far, up to the tab after the key, left as it is
C8_Witness ==
    /\ pc = "ser_done"
    /\ arg_value = RecordS(VBool(TRUE), VNone(TStr))
    /\ ser_result = [ok |-> FALSE, err |-> "Message"]
    /\ indent_level = 2
    /\ output = <<QUOTE, "S", QUOTE, NL, LBRACE, NL>>
                    \o <<TAB, QUOTE, "x", QUOTE, TAB, QUOTE, "1", QUOTE, NL>>
                    \o <<TAB, QUOTE, "i", QUOTE, NL, TAB, LBRACE, NL>>
                    \o <<TAB, TAB, QUOTE, "y", QUOTE, TAB>>

C9_Outcome(r) ==
    r.err = "none" =>
        CASE r.token = Item(<<"0">>) ->
               pc' = "de" /\ de_stack' = Deliver(Tail(de_stack), VBool(FALSE))
          [] r.token = Item(<<"1">>) ->
               pc' = "de" /\ de_stack' = Deliver(Tail(de_stack), VBool(TRUE))
          [] OTHER ->
               pc' = "de_done" /\ de_result' = [ok |-> FALSE, err |-> "Expected"]

\* C9: decoding a boolean gives false only for an item with the text "0" and
\* true only for an item with the text "1"; any other next token, an item
\* with another text, a GroupStart or a GroupEnd, fails with Expected.
C9_BoolStrict ==
    [][DeType("bool") => C9_Outcome(NextToken(input, parsed_input))]_vars

C9_Witness ==
    /\ pc = "de_done"
    /\ arg_type = TBool
    /\ consumed = <<Item(<<"k">>)>>
    /\ de_result = [ok |-> FALSE, err |-> "Expected"]

\* C10: the top-level flag is true when a decode run starts and until the
\* first record or single-field wrapper is decoded; a name token is consumed
\* only there; the check that accepts the name clears the flag; once false
\* the flag is never true again in the run; a run consumes at most one name
\* token.
C10_TopLevelOneShot ==
    /\ [](name_tokens <= 1)
    /\ []((pc = "de" /\ named_seen = 0) => top_level)
    /\ [][/\ (pc = "de" /\ ~top_level) => ~top_level'
          /\ name_tokens' # name_tokens =>
                 /\ DeType("struct") \/ DeType("newtype")
                 /\ top_level /\ named_seen = 0
                 /\ name_tokens' = 1
          /\ (pc = "de" /\ top_level /\ ~top_level') => name_tokens' = name_tokens + 1
          /\ (pc = "de" /\ pc' = "de" /\ named_seen' > 0) => ~top_level']_vars

\* a wrapper A around a wrapper B around a boolean, on the document "A" "0":
\* two named aggregates decoded, one name token consumed
C10_Witness ==
    /\ pc = "de_done"
    /\ arg_type = TNewtype(<<"A">>, TNewtype(<<"B">>, TBool))
    /\ de_result = [ok |-> TRUE, t |-> VNewtype(<<"A">>, VNewtype(<<"B">>, VBool(FALSE)))]
    /\ named_seen = 2
    /\ name_tokens = 1
    /\ ~top_level

(***************************************************************************)
(* Properties: the token buffer.                                           *)
(***************************************************************************)
\* p is a peek on the buffer (inp, queue), n the consume that follows it
C11_ConsumeAfterPeek(p, n) ==
    /\ n.err = "none"
    /\ n.token = p.token
    /\ n.pulled = 0
    /\ n.input = p.input
    /\ n.parsed_input = <<>>

C11_Peek(inp, queue, p) ==
    /\ p.pulled = 1 => queue = <<>>
    /\ queue # <<>> => p.err = "none" /\ p.input = inp /\ p.parsed_input = queue
    /\ p.err = "none" =>
           /\ p.parsed_input = <<p.token>>
           /\ C11_ConsumeAfterPeek(p, NextToken(p.input, p.parsed_input))

C11_Consume(inp, queue, n) ==
    /\ n.pulled = 1 => queue = <<>>
    /\ queue # <<>> => n.err = "none" /\ n.input = inp /\ n.token = queue[1]
    /\ n.err = "none" => n.parsed_input = <<>>

\* C11: in every state of a decode run the queue holds at most one token; a
\* peek or a consume calls the token source only when it finds the queue
\* empty; a peek leaves its token in the queue, and the consume after it
\* returns that token without a call of the token source; a step that finds a
\* token in the queue consumes that token and pulls none.
C11_TokenBuffer ==
    /\ [](Len(parsed_input) <= 1)
    /\ [](pc = "de" =>
             /\ C11_Peek(input, parsed_input, PeekToken(input, parsed_input))
             /\ C11_Consume(input, parsed_input, NextToken(input, parsed_input)))
    /\ [][/\ pulls' # pulls => parsed_input = <<>>
          /\ (parsed_input # <<>> /\ consumed' # consumed) =>
                 /\ consumed' = Append(consumed, parsed_input[1])
                 /\ input' = input
                 /\ parsed_input' = <<>>]_vars

\* a map in a map: the inner loop has peeked the inner GroupEnd, which waits
\* in the queue, four tokens pulled and three consumed
C11_Witness ==
    /\ pc = "de"
    /\ arg_type = TMap(TMap(TBool))
    /\ DeFrame("group_end")
    /\ parsed_input = <<GroupEnd>>
    /\ consumed = <<GroupStart, Item(<<"k">>), GroupStart>>
    /\ pulls = 4

(***************************************************************************)
(* Properties: the indent level.                                           *)
(***************************************************************************)
\* how often the character c stands in the text s as a delimiter, that is
\* outside the quoted items; inq says whether s starts inside one
RECURSIVE DelimCount(_, _, _)
DelimCount(s, c, inq) ==
    IF s = <<>> THEN 0
    ELSE IF inq
         THEN IF Head(s) = BSLASH /\ Len(s) >= 2 THEN DelimCount(Tail(Tail(s)), c, TRUE)
              ELSE DelimCount(Tail(s), c, Head(s) # QUOTE)
    ELSE IF Head(s) = QUOTE THEN DelimCount(Tail(s), c, TRUE)
    ELSE (IF Head(s) = c THEN 1 ELSE 0) + DelimCount(Tail(s), c, FALSE)

\* the groups the encoder has opened and not closed
OpenGroups(out) == DelimCount(out, LBRACE, FALSE) - DelimCount(out, RBRACE, FALSE)

\* C12: in every state of an encoder run the indent level is not negative and
\* is the number of groups opened and not yet closed; it is 0 at the start,
\* and after a successful to_string it is 0 again and the output has as many
\* closing as opening delimiters.
C12_IndentInvariant ==
    /\ indent_level >= 0
    /\ indent_level = OpenGroups(output)
    /\ output = <<>> => indent_level = 0
    /\ (pc = "ser_done" /\ ser_result.ok) =>
           /\ indent_level = 0
           /\ ser_result.text = output
           /\ DelimCount(output, LBRACE, FALSE) = DelimCount(output, RBRACE, FALSE)

\* struct S { x: '{', i: I { y: a map of one entry } }: three groups opened
\* and closed, and a fourth brace that is a character
C12_Witness ==
    /\ pc = "ser_done"
    /\ arg_value = RecordS(VChar(LBRACE), VMap(TStr, OneEntry(<<"h", "i">>, VStr(<<"y", "o">>))))
    /\ ser_result.ok
    /\ indent_level = 0
    /\ DelimCount(output, RBRACE, FALSE) = 3
    /\ Cardinality({i \in DOMAIN output : output[i] = LBRACE}) = 4

(***************************************************************************)
(* Properties: the tokens of an aggregate.                                 *)
(***************************************************************************)
\* the aggregates being decoded: the calls of deserialize_map in progress
OpenAggregates ==
    Cardinality({i \in DOMAIN de_stack : de_stack[i].f \in {"visit_map", "group_end"}})

TokenCount(tokens, token) == Cardinality({i \in DOMAIN tokens : tokens[i] = token})

\* A value is one item or a group: GroupStart, entries of one key item and
\* one value each, GroupEnd.  ParseValue gives what is left of the tokens
\* after one value, or NoParse.
NoParse == <<[t |-> "no_parse"]>>

RECURSIVE ParseValue(_), ParseEntries(_)
ParseEntriesAfter(rest) == IF rest = NoParse THEN NoParse ELSE ParseEntries(rest)

ParseValue(tokens) ==
    IF tokens = <<>> THEN NoParse
    ELSE IF Head(tokens).t = "Item" THEN Tail(tokens)
    ELSE IF Head(tokens) = GroupStart THEN ParseEntries(Tail(tokens))
    ELSE NoParse

ParseEntries(tokens) ==
    IF tokens = <<>> THEN NoParse
    ELSE IF Head(tokens) = GroupEnd THEN Tail(tokens)
    ELSE IF Head(tokens).t = "Item" THEN ParseEntriesAfter(ParseValue(Tail(tokens)))
    ELSE NoParse

\* the start of deserialize_map; r is the token it takes for the GroupStart
C13_Open(r) ==
    /\ pc' = "de" =>
           /\ Len(consumed') = Len(consumed) + (name_tokens' - name_tokens) + 1
           /\ consumed'[Len(consumed')] = GroupStart
           /\ TokenCount(consumed', GroupStart) = TokenCount(consumed, GroupStart) + 1
    /\ (~(DeType("struct") /\ top_level) /\ r.err = "none" /\ r.token # GroupStart) =>
           /\ pc' = "de_done"
           /\ de_result' = [ok |-> FALSE, err |-> "Expected"]

\* the entry loop asks for a key; p is its peek
C13_Key(p) ==
    /\ (p.err = "none" /\ p.token = GroupEnd) =>
           /\ consumed' = consumed
           /\ parsed_input' = <<GroupEnd>>
           /\ pc' = "de" => Head(de_stack').f = "group_end"
    /\ (p.err = "none" /\ p.token # GroupEnd) => consumed' = Append(consumed, p.token)

\* the end of deserialize_map; r is the token it takes for the GroupEnd
C13_Close(r) ==
    r.err = "none" =>
        /\ consumed' = Append(consumed, r.token)
        /\ parsed_input # <<>> => r.token = parsed_input[1] /\ pulls' = pulls
        /\ IF r.token = GroupEnd
           THEN pc' = "de" /\ de_stack' = Deliver(Tail(de_stack), DeTop.val)
           ELSE pc' = "de_done" /\ de_result' = [ok |-> FALSE, err |-> "Expected"]

\* C13: an aggregate that decodes consumes one GroupStart, for each entry one
\* key and one value, and one GroupEnd; the GroupEnd the entry loop peeks is
\* not consumed by the loop and is the token consumed as the closing
\* delimiter, so that the groups opened and not closed among the consumed
\* tokens are always the aggregates in progress and a nested aggregate never
\* takes the GroupEnd of the one around it; a first token that is no
\* GroupStart, and a token after the entries that is no GroupEnd, fail with
\* Expected.
C13_AggregateTokens ==
    /\ [](pc = "de" =>
             TokenCount(consumed, GroupStart) - TokenCount(consumed, GroupEnd) = OpenAggregates)
    /\ []((FromStrHasValue /\ (name_tokens = 0 \/ arg_type.k \in {"struct", "newtype"})) =>
             ParseValue(SubSeq(consumed, name_tokens + 1, Len(consumed))) = <<>>)
    /\ [][/\ (DeType("map") \/ DeType("struct") \/ DeType("map_no_entries")) =>
                 C13_Open(NextToken(input, parsed_input))
          /\ (DeFrame("visit_map") /\ DeTop.st = "key") =>
                 C13_Key(PeekToken(input, parsed_input))
          /\ DeFrame("group_end") => C13_Close(NextToken(input, parsed_input))]_vars

\* struct S { x: true, i: I { y: false } } read back: the inner record has
\* consumed its GroupEnd and the outer one is still open
C13_Witness ==
    /\ pc = "de"
    /\ arg_value = RecordS(VBool(TRUE), VBool(FALSE))
    /\ consumed = <<Item(<<"S">>), GroupStart, Item(<<"x">>), Item(<<"1">>), Item(<<"i">>),
                    GroupStart, Item(<<"y">>), Item(<<"0">>), GroupEnd>>
    /\ parsed_input = <<>>
    /\ pulls = 9
    /\ OpenAggregates = 1
    /\ DeFrame("visit_map")

(***************************************************************************)
(* Properties: the top-level name on both sides.                           *)
(***************************************************************************)
\* a named record, a single-field wrapper around a map or a record, a map of
\* named records
IsTopLevelShape(v) ==
    /\ v # NoValue
    /\ \/ v.k = "struct"
       \/ v.k = "newtype" /\ v.v.k \in {"map", "struct"}
       \/ v.k = "map" /\ \A key \in DOMAIN v.m : v.m[key].k = "struct"

\* C14: for a named record, a single-field wrapper around a map or around a
\* record, and a map whose values are named records, the encoder writes the
\* leading name where the decoder of the same type consumes and checks one:
\* from_str on the text of to_string consumes a name token exactly if the
\* text starts with one, and does not end with Expected.
C14_TopLevelNameAgreed ==
    (pc = "de_done" /\ IsTopLevelShape(arg_value) /\ IsSupported(arg_value)) =>
        /\ de_result # [ok |-> FALSE, err |-> "Expected"]
        /\ name_tokens = (IF Head(SkipWhitespace(arg_text)) = QUOTE THEN 1 ELSE 0)


====
